---- MODULE Spec2Model ----
(***************************************************************************)
(* check_teamredminer: a Nagios plugin that asks the TeamRedMiner API for  *)
(* "summary" and "devs", turns the answers into metrics, evaluates every   *)
(* metric in its context and exits with the worst state.                   *)
(*                                                                         *)
(* Python values are represented as follows.  An optional value is a       *)
(* sequence of length 0 (None) or 1.  A JSON object whose key order        *)
(* matters (the API response, see request) is a sequence of <<key, value>> *)
(* pairs in document order; a JSON record that is only read by key (the    *)
(* summary and device records) is a function from its keys.  An exception  *)
(* is a record [type, msg] where msg is str(err).                          *)
(***************************************************************************)
EXTENDS Integers, Sequences, FiniteSets, TLC

VARIABLES
    pc,         \* position of the process in main / probe / request
    args,       \* the parsed command line (parse_arguments)
    contexts,   \* the contexts registered in the Check, by name
    socks,      \* one entry per socket created by request: "open" or "closed"
    sent,       \* the commands written with sendall, in order
    data,       \* request: the last chunk returned by recv
    response,   \* request: the chunks received so far, later the decoded document
    overflow,   \* request: more than MaxChunks chunks were received
    summary,    \* probe: the summary record
    devices,    \* probe: the device records
    metrics,    \* probe: the metrics collected so far
    results,    \* Check: the results of the evaluated metrics
    perfdata,   \* Check: the performance data
    err,        \* main: the exception caught by the except clause
    exitcode,   \* the exit code of the process
    stdout,     \* what the process printed
    call,       \* unit level: the call under evaluation
    ret         \* unit level: what the call returned or raised

vars == <<pc, args, contexts, socks, sent, data, response, overflow, summary,
          devices, metrics, results, perfdata, err, exitcode, stdout, call, ret>>

runVars == <<pc, args, contexts, socks, sent, data, response, overflow, summary,
             devices, metrics, results, perfdata, err, exitcode, stdout>>

unitVars == <<call, ret>>

-----------------------------------------------------------------------------
(* Bounds of the model *)

MaxDevices == 2     \* device records in one "devs" answer
MaxChunks == 3      \* chunks of one answer that the model keeps
MaxStatus == 2      \* elements of a STATUS array
MaxBound == 3       \* largest threshold of the unit-level evaluation

-----------------------------------------------------------------------------
(* Python values *)

None == <<>>

Some(x) == <<x>>

\* bool(x) of an optional number: None and 0 are false
Truthy(o) == o # None /\ o[1] # 0

\* str(x) of an optional number
StrOptInt(o) == IF o = None THEN "None" ELSE ToString(o[1])

\* str(x) of an optional string
StrOptStr(o) == IF o = None THEN "None" ELSE o[1]

\* str(x) of a bool
StrBool(b) == IF b THEN "True" ELSE "False"

NoExc == None

Exc(type, msg) == Some([type |-> type, msg |-> msg])

Returned(v) == [ok |-> TRUE, value |-> v]

Raised(e) == [ok |-> FALSE, exc |-> e[1]]

\* dict operations on a sequence of <<key, value>> pairs
HasKey(d, k) == \E i \in 1..Len(d) : d[i][1] = k

Get(d, k) == d[CHOOSE i \in 1..Len(d) : d[i][1] = k][2]

Pop(d, k) == SelectSeq(d, LAMBDA p : p[1] # k)

-----------------------------------------------------------------------------
(* nagiosplugin.state *)

Ok == [code |-> 0, text |-> "ok"]

Warn == [code |-> 1, text |-> "warning"]

Critical == [code |-> 2, text |-> "critical"]

Unknown == [code |-> 3, text |-> "unknown"]

Metric(name, value, uom, context) ==
    [name |-> name, value |-> value, uom |-> uom, context |-> context]

Result(state, hint, metric) == [state |-> state, hint |-> hint, metric |-> metric]

-----------------------------------------------------------------------------
(* TeamRedMinerApi *)

\* a status check that lets the warnings pass
FailureCodes_noW == {"E", "F"}

FailureCodes == {"W", "E", "F"}

ApiErrorOf(r) ==
    Exc("ApiError", "API error: " \o r.Msg \o " (code " \o ToString(r.Code) \o ")")

RECURSIVE raise_for_status_loop(_, _)
raise_for_status_loop(status, i) ==
    IF i > Len(status) THEN NoExc
    ELSE IF status[i].STATUS \in FailureCodes THEN ApiErrorOf(status[i])
    ELSE raise_for_status_loop(status, i + 1)

raise_for_status(resp) ==
    IF ~HasKey(resp, "STATUS") THEN Exc("KeyError", "'STATUS'")
    ELSE raise_for_status_loop(Get(resp, "STATUS"), 1)

\* request, from raise_for_status to the return
request_return(resp) ==
    LET e == raise_for_status(resp)
        r1 == Pop(resp, "STATUS")
        r2 == Pop(r1, "id")
    IN  IF e # NoExc THEN Raised(e)
        ELSE IF ~HasKey(r1, "id") THEN Raised(Exc("KeyError", "'id'"))
        ELSE IF r2 = <<>> THEN Raised(Exc("IndexError", "list index out of range"))
        ELSE Returned(r2[1][2])

\* json.loads("".join(response)): a chunk is a whole document, the head or the
\* tail of one, or bytes that belong to no document
ChunkKinds == {"whole", "head", "tail", "junk"}

WellFormed(chunks, over) == ~over /\ chunks \in {<<"whole">>, <<"head", "tail">>}

JSONDecodeError(chunks) ==
    IF chunks # <<>> /\ chunks[1] = "head" /\ Len(chunks) = 1
    THEN Exc("JSONDecodeError", "Expecting ',' delimiter")
    ELSE IF chunks # <<>> /\ (chunks[1] = "whole"
                              \/ (Len(chunks) >= 2 /\ chunks[1] = "head" /\ chunks[2] = "tail"))
    THEN Exc("JSONDecodeError", "Extra data")
    ELSE Exc("JSONDecodeError", "Expecting value")

-----------------------------------------------------------------------------
(* TeamRedMiner.probe *)

probe_summary(s) ==
    (IF "MHS 30s" \in DOMAIN s
     THEN <<Metric("hashrate", s["MHS 30s"], Some("MH/s"), "hashrate")>> ELSE <<>>)
    \o
    (IF "Elapsed" \in DOMAIN s
     THEN <<Metric("uptime", s["Elapsed"], Some("s"), "uptime")>> ELSE <<>>)

\* a probe that reports a temperature for every GPU, 0 when the field is missing
probe_device_fabricating(device) ==
    IF "GPU" \in DOMAIN device
    THEN LET id == ToString(device["GPU"])
         IN (IF "Status" \in DOMAIN device
             THEN <<Metric("alive_" \o id, device["Status"] = "Alive", None, "alive")>>
             ELSE <<>>)
            \o
            <<Metric("temperature_" \o id,
                     IF "Temperature" \in DOMAIN device THEN device["Temperature"] ELSE 0,
                     Some("C"), "temperature")>>
            \o
            (IF "TemperatureMem" \in DOMAIN device
             THEN <<Metric("memory_temperature_" \o id, device["TemperatureMem"],
                           Some("C"), "temperature")>>
             ELSE <<>>)
    ELSE <<>>

probe_device(device) ==
    IF "GPU" \in DOMAIN device
    THEN LET id == ToString(device["GPU"])
         IN (IF "Status" \in DOMAIN device
             THEN <<Metric("alive_" \o id, device["Status"] = "Alive", None, "alive")>>
             ELSE <<>>)
            \o
            (IF "Temperature" \in DOMAIN device
             THEN <<Metric("temperature_" \o id, device["Temperature"], Some("C"),
                           "temperature")>>
             ELSE <<>>)
            \o
            (IF "TemperatureMem" \in DOMAIN device
             THEN <<Metric("memory_temperature_" \o id, device["TemperatureMem"],
                           Some("C"), "temperature")>>
             ELSE <<>>)
    ELSE <<>>

RECURSIVE probe_devices(_)
probe_devices(devs) ==
    IF devs = <<>> THEN <<>>
    ELSE probe_device(Head(devs)) \o probe_devices(Tail(devs))

-----------------------------------------------------------------------------
(* The contexts *)

BelowThresholdContext(name, warning, critical) ==
    [cls |-> "BelowThresholdContext", name |-> name,
     warning |-> warning, critical |-> critical]

BelowThresholdContext_evaluate(self, metric) ==
    LET unit == IF metric.uom # None /\ metric.uom[1] # "" THEN metric.uom ELSE None
    IN  IF Truthy(self.critical) /\ metric.value <= self.critical[1]
        THEN Result(Critical,
                    Some(ToString(metric.value) \o "<=" \o StrOptInt(self.critical)
                         \o StrOptStr(unit)),
                    metric)
        ELSE IF Truthy(self.warning) /\ metric.value <= self.warning[1]
        THEN Result(Warn,
                    Some(ToString(metric.value) \o "<=" \o StrOptInt(self.warning)
                         \o StrOptStr(unit)),
                    metric)
        ELSE Result(Ok, None, metric)

\* nagiosplugin.Range(spec) of a number: the range 0..spec; None and 0 give 0..infinity
Range(spec) == [start |-> 0, end |-> IF Truthy(spec) THEN spec ELSE None]

Range_match(range, value) ==
    ~(value < range.start) /\ ~(range.end # None /\ value > range.end[1])

Range_violation(range) ==
    "outside range " \o ToString(range.start) \o ":"
        \o (IF range.end = None THEN "" ELSE ToString(range.end[1]))

\* nagiosplugin.ScalarContext(name, warning, critical)
ScalarContext(name, warning, critical) ==
    [cls |-> "ScalarContext", name |-> name,
     warning |-> Range(warning), critical |-> Range(critical)]

\* an upper-bound evaluation that alerts from the bound on (value >= bound)
ScalarContext_evaluate_inclusive(self, metric) ==
    IF metric.value < 0 \/ (self.critical.end # None /\ metric.value >= self.critical.end[1])
    THEN Result(Critical, Some(Range_violation(self.critical)), metric)
    ELSE IF self.warning.end # None /\ metric.value >= self.warning.end[1]
    THEN Result(Warn, Some(Range_violation(self.warning)), metric)
    ELSE Result(Ok, None, metric)

ScalarContext_evaluate(self, metric) ==
    IF ~Range_match(self.critical, metric.value)
    THEN Result(Critical, Some(Range_violation(self.critical)), metric)
    ELSE IF ~Range_match(self.warning, metric.value)
    THEN Result(Warn, Some(Range_violation(self.warning)), metric)
    ELSE Result(Ok, None, metric)

BooleanContext(name, expected, warning, critical) ==
    [cls |-> "BooleanContext", name |-> name, expected |-> expected,
     warning |-> warning, critical |-> critical]

\* a boolean evaluation that looks at warning before critical
BooleanContext_evaluate_warning_first(self, metric) ==
    IF ~(metric.value = self.expected)
    THEN Result(IF self.warning THEN Warn
                ELSE IF self.critical THEN Critical ELSE Ok,
                Some(metric.name \o " is not " \o StrBool(self.expected)),
                metric)
    ELSE Result(Ok, None, metric)

BooleanContext_evaluate(self, metric) ==
    IF ~(metric.value = self.expected)
    THEN Result(IF self.critical THEN Critical
                ELSE IF self.warning THEN Warn ELSE Ok,
                Some(metric.name \o " is not " \o StrBool(self.expected)),
                metric)
    ELSE Result(Ok, None, metric)

\* metric.evaluate(): the evaluate method of the metric's context
Context_evaluate(self, metric) ==
    IF self.cls = "BelowThresholdContext" THEN BelowThresholdContext_evaluate(self, metric)
    ELSE IF self.cls = "ScalarContext" THEN ScalarContext_evaluate(self, metric)
    ELSE BooleanContext_evaluate(self, metric)

-----------------------------------------------------------------------------
(* nagiosplugin.Check, as main uses it *)

\* Context.performance: the threshold contexts give an entry, BooleanContext none
Context_performance(self, metric) ==
    IF self.cls = "BelowThresholdContext"
    THEN Some([label |-> metric.name, value |-> metric.value, uom |-> metric.uom,
               warn |-> self.warning, crit |-> self.critical])
    ELSE IF self.cls = "ScalarContext"
    THEN Some([label |-> metric.name, value |-> metric.value, uom |-> metric.uom,
               warn |-> self.warning.end, crit |-> self.critical.end])
    ELSE None

\* Check._evaluate_resource: every metric is evaluated by the context it names
RECURSIVE Check_results(_, _)
Check_results(ctxs, ms) ==
    IF ms = <<>> THEN <<>>
    ELSE <<Context_evaluate(ctxs[Head(ms).context], Head(ms))>>
         \o Check_results(ctxs, Tail(ms))

RECURSIVE Check_perfdata(_, _)
Check_perfdata(ctxs, ms) ==
    IF ms = <<>> THEN <<>>
    ELSE Context_performance(ctxs[Head(ms).context], Head(ms))
         \o Check_perfdata(ctxs, Tail(ms))

\* the labels probe can produce, in the order of sorted(); a rig numbers its GPUs
\* from 0
SortedLabels ==
    <<"hashrate">> \o [i \in 1..MaxDevices |-> "memory_temperature_" \o ToString(i - 1)]
        \o [i \in 1..MaxDevices |-> "temperature_" \o ToString(i - 1)] \o <<"uptime">>

\* Check.__call__: self.perfdata = sorted(...); two entries of one label are equal
\* in this model, every temperature field having the same value
RECURSIVE SortedBy(_, _)
SortedBy(labels, perf) ==
    IF labels = <<>> THEN <<>>
    ELSE SelectSeq(perf, LAMBDA p : p.label = Head(labels)) \o SortedBy(Tail(labels), perf)

Check_call_perfdata(ctxs, ms) == SortedBy(SortedLabels, Check_perfdata(ctxs, ms))

\* an aggregation that takes the state of the last result
most_significant_state_last(rs) == rs[Len(rs)].state

\* Results.most_significant_state
RECURSIVE most_significant_state(_)
most_significant_state(rs) ==
    IF Len(rs) = 1 THEN rs[1].state
    ELSE LET rest == most_significant_state(Tail(rs))
         IN IF rs[1].state.code >= rest.code THEN rs[1].state ELSE rest

\* Check.state: Unknown when no result was collected
Check_state(rs) == IF rs = <<>> THEN Unknown ELSE most_significant_state(rs)

-----------------------------------------------------------------------------
(* TeamRedMinerSummary *)

RECURSIVE Join(_, _)
Join(sep, strs) ==
    IF strs = <<>> THEN ""
    ELSE IF Len(strs) = 1 THEN strs[1]
    ELSE strs[1] \o sep \o Join(sep, Tail(strs))

RECURSIVE problem_items(_)
problem_items(rs) ==
    IF rs = <<>> THEN <<>>
    ELSE (IF Head(rs).state.text # "ok"
          THEN <<Head(rs).metric.name \o " " \o Head(rs).state.text \o ": "
                 \o StrOptStr(Head(rs).hint)>>
          ELSE <<>>)
         \o problem_items(Tail(rs))

problem(rs) == Join(", ", problem_items(rs))

\* Check.summary_str; the text of Summary.ok is not modelled
summary_str(rs) ==
    IF rs = <<>> THEN Some("no check results")
    ELSE IF Check_state(rs) = Ok THEN None
    ELSE Some(problem(rs))

-----------------------------------------------------------------------------
(* main *)

TemperatureWarningDefault == 70

TemperatureCriticalDefault == 90

MemoryTemperatureWarningDefault == 90

MemoryTemperatureCriticalDefault == 110

\* parse_arguments without options
DefaultArgs ==
    [hashrate_warning |-> None, hashrate_critical |-> None,
     uptime_warning |-> None, uptime_critical |-> None,
     temperature_warning |-> Some(TemperatureWarningDefault),
     temperature_critical |-> Some(TemperatureCriticalDefault),
     memory_temperature_warning |-> Some(MemoryTemperatureWarningDefault),
     memory_temperature_critical |-> Some(MemoryTemperatureCriticalDefault)]

\* the contexts main registers in the Check
MainContexts(a) ==
    [hashrate |-> BelowThresholdContext("hashrate", a.hashrate_warning, a.hashrate_critical),
     uptime |-> BelowThresholdContext("uptime", a.uptime_warning, a.uptime_critical),
     temperature |-> ScalarContext("temperature", a.temperature_warning,
                                   a.temperature_critical),
     alive |-> BooleanContext("alive", TRUE, FALSE, TRUE)]

\* an except clause that exits as Critical
main_except_exitcode_critical == Critical.code

\* sys.exit(Unknown.code)
main_except_exitcode == Unknown.code

main_except_text(e) == "Failed to execute check: " \o e.msg

-----------------------------------------------------------------------------
(* The API server and the network: what the process can be given *)

Opt(S) == {None} \cup {Some(x) : x \in S}

Field(k, o) == IF o = None THEN <<>> ELSE k :> o[1]

SeqsUpTo(S, n) == UNION {[1..k -> S] : k \in 0..n}

Commands == {"summary", "devs"}

SummaryRecords ==
    {Field("MHS 30s", h) @@ Field("Elapsed", e) : h \in Opt({25}), e \in Opt({100})}

\* the record of the i-th device of a rig: its GPU id, when it has one, is i - 1
DeviceRecords(i) ==
    {Field("GPU", g) @@ Field("Status", s) @@ Field("Temperature", t)
        @@ Field("TemperatureMem", m) :
        g \in Opt({i - 1}), s \in Opt({"Alive", "Dead"}), t \in Opt({80}), m \in Opt({80})}

RECURSIVE DeviceLists(_)
DeviceLists(n) ==
    IF n = 0 THEN {<<>>}
    ELSE {Append(l, d) : l \in DeviceLists(n - 1), d \in DeviceRecords(n)}

\* the payload of an answer: a list with the summary record, a list of device records
Payloads(cmd) ==
    IF cmd = "summary" THEN SeqsUpTo(SummaryRecords, 1)
    ELSE UNION {DeviceLists(n) : n \in 0..MaxDevices}

PayloadKey(cmd) == IF cmd = "summary" THEN "SUMMARY" ELSE "DEVS"

StatusOk == <<[STATUS |-> "S", Code |-> 11, Msg |-> "Summary"]>>

StatusError == <<[STATUS |-> "E", Code |-> 14, Msg |-> "Invalid command"]>>

\* the documents the server answers a command with
Responses(cmd) ==
    {<<<<"STATUS", StatusOk>>, <<PayloadKey(cmd), p>>, <<"id", 1>>>> : p \in Payloads(cmd)}
    \cup {<<<<"STATUS", StatusError>>, <<"id", 1>>>>}

ConnectErrors ==
    {Exc("timeout", "timed out"),
     Exc("ConnectionRefusedError", "[Errno 111] Connection refused")}

SendErrors == {Exc("BrokenPipeError", "[Errno 32] Broken pipe")}

RecvErrors ==
    {Exc("timeout", "timed out"),
     Exc("ConnectionResetError", "[Errno 104] Connection reset by peer")}

\* command lines: no option; thresholds for hashrate, uptime and memory temperature
MainArgs ==
    {DefaultArgs,
     [DefaultArgs EXCEPT !.hashrate_warning = Some(30), !.hashrate_critical = Some(10),
                         !.uptime_critical = Some(600),
                         !.memory_temperature_warning = Some(100),
                         !.memory_temperature_critical = Some(120)]}

-----------------------------------------------------------------------------
(* One run of the plugin *)

At(cmd, step) == cmd \o "_" \o step

Init ==
    /\ pc = "main"
    /\ args \in MainArgs
    /\ contexts = None
    /\ socks = <<>>
    /\ sent = <<>>
    /\ data = None
    /\ response = <<>>
    /\ overflow = FALSE
    /\ summary = None
    /\ devices = None
    /\ metrics = <<>>
    /\ results = <<>>
    /\ perfdata = <<>>
    /\ err = None
    /\ exitcode = None
    /\ stdout = None
    /\ call = None
    /\ ret = None

\* a request that never closes its socket
socket_exit_leak(sk) == sk

\* leaving the with block closes the socket
socket_exit(sk) == [i \in DOMAIN sk |-> "closed"]

\* an exception leaves request and probe and reaches the except clause of main
Abort(e, sk) ==
    /\ pc' = "except"
    /\ err' = e
    /\ socks' = socket_exit(sk)
    /\ data' = None
    /\ response' = <<>>
    /\ overflow' = FALSE
    /\ summary' = None
    /\ devices' = None
    /\ metrics' = <<>>

\* main: Check(...) and check.main(), up to the first request of probe
CreateCheck ==
    /\ pc = "main"
    /\ contexts' = MainContexts(args)
    /\ pc' = At("summary", "connect")
    /\ UNCHANGED <<args, socks, sent, data, response, overflow, summary, devices,
                   metrics, results, perfdata, err, exitcode, stdout, call, ret>>

\* request: socket.socket(), settimeout, connect
Connect(cmd) ==
    /\ pc = At(cmd, "connect")
    /\ \/ /\ socks' = Append(socks, "open")
          /\ pc' = At(cmd, "send")
          /\ UNCHANGED <<data, response, overflow, summary, devices, metrics, err>>
       \/ \E e \in ConnectErrors : Abort(e, Append(socks, "open"))
    /\ UNCHANGED <<args, contexts, sent, results, perfdata, exitcode, stdout, call, ret>>

\* request: sendall
SendAll(cmd) ==
    /\ pc = At(cmd, "send")
    /\ sent' = Append(sent, cmd)
    /\ \/ /\ pc' = At(cmd, "recv")
          /\ response' = <<>>
          /\ UNCHANGED <<socks, data, overflow, summary, devices, metrics, err>>
       \/ \E e \in SendErrors : Abort(e, socks)
    /\ UNCHANGED <<args, contexts, results, perfdata, exitcode, stdout, call, ret>>

\* request: one recv of the loop; the peer sends a chunk, closes, or stays silent
\* longer than the timeout
Recv(cmd) ==
    /\ pc = At(cmd, "recv")
    /\ \/ \E chunk \in ChunkKinds :
            /\ data' = Some(chunk)
            /\ response' = IF Len(response) < MaxChunks
                           THEN Append(response, chunk) ELSE response
            /\ overflow' = (overflow \/ Len(response) >= MaxChunks)
            /\ UNCHANGED <<pc, socks, summary, devices, metrics, err>>
       \/ /\ data' = None
          /\ pc' = At(cmd, "loads")
          /\ UNCHANGED <<socks, response, overflow, summary, devices, metrics, err>>
       \/ \E e \in RecvErrors : Abort(e, socks)
    /\ UNCHANGED <<args, contexts, sent, results, perfdata, exitcode, stdout, call, ret>>

\* request: json.loads
Loads(cmd) ==
    /\ pc = At(cmd, "loads")
    /\ IF WellFormed(response, overflow)
       THEN /\ \E doc \in Responses(cmd) : response' = doc
            /\ pc' = At(cmd, "return")
            /\ UNCHANGED <<socks, data, overflow, summary, devices, metrics, err>>
       ELSE Abort(JSONDecodeError(response), socks)
    /\ UNCHANGED <<args, contexts, sent, results, perfdata, exitcode, stdout, call, ret>>

\* request: raise_for_status and the return; probe: what it does with the value
Return(cmd) ==
    /\ pc = At(cmd, "return")
    /\ LET r == request_return(response)
       IN  IF ~r.ok THEN Abort(Some(r.exc), socks)
           ELSE IF cmd = "summary" /\ r.value = <<>>
           THEN Abort(Exc("IndexError", "list index out of range"), socks)
           ELSE /\ socks' = socket_exit(socks)
                /\ data' = None
                /\ response' = <<>>
                /\ overflow' = FALSE
                /\ err' = err
                /\ IF cmd = "summary"
                   THEN /\ summary' = Some(r.value[1])
                        /\ metrics' = probe_summary(r.value[1])
                        /\ devices' = devices
                        /\ pc' = At("devs", "connect")
                   ELSE /\ devices' = Some(r.value)
                        /\ metrics' = metrics \o probe_devices(r.value)
                        /\ summary' = summary
                        /\ pc' = "evaluate"
    /\ UNCHANGED <<args, contexts, sent, results, perfdata, exitcode, stdout, call, ret>>

\* check.main(): every metric is evaluated, the output printed, the process exits
Evaluate ==
    /\ pc = "evaluate"
    /\ results' = Check_results(contexts, metrics)
    /\ perfdata' = Check_call_perfdata(contexts, metrics)
    /\ exitcode' = Some(Check_state(results').code)
    /\ stdout' = Some([status |-> Check_state(results').text,
                       text |-> summary_str(results'),
                       perfdata |-> perfdata'])
    /\ pc' = "exit"
    /\ UNCHANGED <<args, contexts, socks, sent, data, response, overflow, summary,
                   devices, metrics, err, call, ret>>

\* main: the except clause
Except ==
    /\ pc = "except"
    /\ stdout' = Some([status |-> Unknown.text,
                       text |-> Some(main_except_text(err[1])),
                       perfdata |-> <<>>])
    /\ exitcode' = Some(main_except_exitcode)
    /\ pc' = "exit"
    /\ UNCHANGED <<args, contexts, socks, sent, data, response, overflow, summary,
                   devices, metrics, results, perfdata, err, call, ret>>

Next ==
    \/ CreateCheck
    \/ \E cmd \in Commands : Connect(cmd)
    \/ \E cmd \in Commands : SendAll(cmd)
    \/ \E cmd \in Commands : Recv(cmd)
    \/ \E cmd \in Commands : Loads(cmd)
    \/ \E cmd \in Commands : Return(cmd)
    \/ Evaluate
    \/ Except

Spec == Init /\ [][Next]_vars

\* the process is the only thread and runs until it exits
LiveSpec == Spec /\ WF_vars(Next)

-----------------------------------------------------------------------------
(* Unit level: one call of a context's evaluate, one call of request on a decoded
   document *)

UnitIdle ==
    /\ pc = "unit"
    /\ args = DefaultArgs
    /\ contexts = None
    /\ socks = <<>>
    /\ sent = <<>>
    /\ data = None
    /\ response = <<>>
    /\ overflow = FALSE
    /\ summary = None
    /\ devices = None
    /\ metrics = <<>>
    /\ results = <<>>
    /\ perfdata = <<>>
    /\ err = None
    /\ exitcode = None
    /\ stdout = None

\* thresholds: small numbers and the defaults of parse_arguments
BelowBounds == Opt(-1..MaxBound)

AboveBounds ==
    Opt(0..MaxBound \cup {TemperatureWarningDefault, TemperatureCriticalDefault,
                          MemoryTemperatureCriticalDefault})

\* values: at, just below and just above every threshold
ValuesAround(bounds) == {b[1] + d : b \in bounds \ {None}, d \in -1..1}

EvaluateCall(ctx, kwargs, metric) ==
    [fn |-> "evaluate", ctx |-> ctx, kwargs |-> kwargs, metric |-> metric]

BelowCalls ==
    {EvaluateCall(BelowThresholdContext(n[1], w, c), [warning |-> w, critical |-> c],
                  Metric(n[1], v, Some(n[2]), n[1])) :
        n \in {<<"hashrate", "MH/s">>, <<"uptime", "s">>},
        w \in BelowBounds, c \in BelowBounds, v \in ValuesAround(BelowBounds)}

AboveCalls ==
    {EvaluateCall(ScalarContext("temperature", w, c), [warning |-> w, critical |-> c],
                  Metric(n, v, Some("C"), "temperature")) :
        n \in {"temperature_0", "memory_temperature_0"},
        w \in AboveBounds, c \in AboveBounds, v \in ValuesAround(AboveBounds)}

BooleanCalls ==
    {EvaluateCall(BooleanContext("alive", e, w, c), [warning |-> w, critical |-> c],
                  Metric(n, v, None, "alive")) :
        n \in {"alive_0", "alive_1"}, e \in BOOLEAN, w \in BOOLEAN, c \in BOOLEAN,
        v \in BOOLEAN}

EvalInit ==
    /\ UnitIdle
    /\ \/ call \in {Some(x) : x \in BelowCalls}
       \/ call \in {Some(x) : x \in AboveCalls}
       \/ call \in {Some(x) : x \in BooleanCalls}
    /\ ret = None

CallEvaluate ==
    /\ pc = "unit"
    /\ call # None /\ call[1].fn = "evaluate"
    /\ ret = None
    /\ ret' = Some(Context_evaluate(call[1].ctx, call[1].metric))
    /\ UNCHANGED <<runVars, call>>

EvalNext == CallEvaluate

EvalSpec == EvalInit /\ [][EvalNext]_vars

StatusElements ==
    {[STATUS |-> s, Code |-> m[1], Msg |-> m[2]] :
        s \in {"S", "I", "W", "E", "F"},
        m \in {<<14, "Invalid command">>, <<45, "Access denied">>}}

StatusArrays == SeqsUpTo(StatusElements, MaxStatus)

\* the documents request may decode: the answers of the API, and objects that
\* lack the id, the payload, or hold a second payload key
ApiDocuments ==
    UNION {{<<<<"STATUS", st>>, <<"DEVS", <<>>>>, <<"id", 1>>>>,
            <<<<"SUMMARY", <<[Elapsed |-> 100]>>>>, <<"STATUS", st>>, <<"id", 1>>>>,
            <<<<"STATUS", st>>, <<"id", 1>>>>,
            <<<<"STATUS", st>>, <<"SUMMARY", <<[Elapsed |-> 100]>>>>>>,
            <<<<"STATUS", st>>, <<"SUMMARY", <<[Elapsed |-> 100]>>>>, <<"DEVS", <<>>>>,
              <<"id", 1>>>>} : st \in StatusArrays}

ApiInit ==
    /\ UnitIdle
    /\ call \in {Some([fn |-> "request", resp |-> d]) : d \in ApiDocuments}
    /\ ret = None

CallRequest ==
    /\ pc = "unit"
    /\ call # None /\ call[1].fn = "request"
    /\ ret = None
    /\ ret' = Some(request_return(call[1].resp))
    /\ UNCHANGED <<runVars, call>>

ApiNext == CallRequest

ApiSpec == ApiInit /\ [][ApiNext]_vars

-----------------------------------------------------------------------------
(* Properties *)

IsEvaluated(cls) == ret # None /\ call[1].fn = "evaluate" /\ call[1].ctx.cls = cls

\* the lower-bound rule with a tier disabled only by an absent bound
BelowRule(v, w, c) ==
    IF c # None /\ v <= c[1] THEN Critical
    ELSE IF w # None /\ v <= w[1] THEN Warn ELSE Ok

\* the upper-bound rule that alerts from the bound on
AboveRule(v, w, c) ==
    IF c # None /\ v >= c[1] THEN Critical
    ELSE IF w # None /\ v >= w[1] THEN Warn ELSE Ok

\* C1: a lower-bound context (hashrate, uptime) gives Critical when a critical bound
\* is configured and value <= bound, else Warning when a warning bound is configured
\* and value <= bound, else Ok without hint; only an absent bound disables a tier.
C1_BelowThreshold ==
    IsEvaluated("BelowThresholdContext") =>
        /\ ret[1].state = BelowRule(call[1].metric.value, call[1].kwargs.warning,
                                    call[1].kwargs.critical)
        /\ (ret[1].state = Ok => ret[1].hint = None)

C4_BooleanEquality ==
    /\ IsEvaluated("BooleanContext") =>
        LET m == call[1].metric
            c == call[1].ctx
        IN  IF m.value = c.expected
            THEN ret[1].state = Ok /\ ret[1].hint = None
            ELSE /\ ret[1].state = IF c.critical THEN Critical
                                   ELSE IF c.warning THEN Warn ELSE Ok
                 /\ ret[1].hint = Some(m.name \o " is not " \o StrBool(c.expected))
    /\ \A a \in MainArgs : \A d \in DeviceRecords(1) :
        "GPU" \in DOMAIN d /\ "Status" \in DOMAIN d /\ d["Status"] # "Alive" =>
            \E i \in DOMAIN probe_device(d) :
                /\ probe_device(d)[i].name = "alive_" \o ToString(d["GPU"])
                /\ Context_evaluate(MainContexts(a)[probe_device(d)[i].context],
                                    probe_device(d)[i]).state = Critical

\* a dead GPU has been evaluated by the context main registers, to Critical
C4_Witness ==
    /\ IsEvaluated("BooleanContext")
    /\ call[1].ctx = MainContexts(DefaultArgs).alive
    /\ call[1].metric.name = "alive_0"
    /\ call[1].metric.value = FALSE
    /\ ret[1].state = Critical
    /\ ret[1].hint = Some("alive_0 is not True")

\* the memory temperature metrics among the results
IsMemoryTemperature(name) ==
    \E id \in 0..MaxDevices - 1 : name = "memory_temperature_" \o ToString(id)

IsTemperature(name) ==
    \E id \in 0..MaxDevices - 1 : name = "temperature_" \o ToString(id)

\* C3: every memory_temperature_<id> result is the upper-bound verdict of its value
\* against the memory temperature bounds (default 90 / 110), every temperature_<id>
\* result against the temperature bounds (default 70 / 90), independently.
C3_MemoryTemperatureBounds ==
    pc = "exit" /\ err = None =>
        \A i \in DOMAIN results :
            /\ IsMemoryTemperature(results[i].metric.name) =>
                results[i].state = AboveRule(results[i].metric.value,
                                             args.memory_temperature_warning,
                                             args.memory_temperature_critical)
            /\ IsTemperature(results[i].metric.name) =>
                results[i].state = AboveRule(results[i].metric.value,
                                             args.temperature_warning,
                                             args.temperature_critical)

IsWorstOf(code, rs) ==
    /\ \A i \in DOMAIN rs : rs[i].state.code <= code
    /\ \E i \in DOMAIN rs : rs[i].state.code = code

C6_FailureIsUnknown ==
    err # None =>
        /\ results = <<>> /\ perfdata = <<>>
        /\ pc \in {"except", "exit"}
        /\ pc = "exit" =>
            /\ exitcode = Some(3)
            /\ stdout[1].status = "unknown"
            /\ stdout[1].text = Some("Failed to execute check: " \o err[1].msg)
            /\ stdout[1].perfdata = <<>>

\* the devs request failed with an API error after the summary request succeeded
C6_Witness ==
    /\ pc = "exit"
    /\ err # None /\ err[1].type = "ApiError"
    /\ sent = <<"summary", "devs">>
    /\ exitcode = Some(3)

\* C7: request raises an API error, with the message and code of a failing element,
\* exactly when some element of STATUS has the code W, E or F, and then returns no
\* payload; otherwise a document with the id and one payload key gives that payload.
C7_RequestStatus ==
    ret # None /\ call[1].fn = "request" =>
        LET doc == call[1].resp
            status == Get(doc, "STATUS")
            bad == {i \in DOMAIN status : status[i].STATUS \in {"W", "E", "F"}}
            payload == {i \in DOMAIN doc : doc[i][1] \notin {"STATUS", "id"}}
        IN  /\ bad # {} <=> (~ret[1].ok /\ ret[1].exc.type = "ApiError")
            /\ bad # {} =>
                \E i \in bad :
                    ret[1].exc.msg = "API error: " \o status[i].Msg \o " (code "
                                        \o ToString(status[i].Code) \o ")"
            /\ bad = {} /\ HasKey(doc, "id") /\ Cardinality(payload) = 1 =>
                /\ ret[1].ok
                /\ \A i \in payload : ret[1].value = doc[i][2]

\* a document whose first status is fine and whose second is a warning was refused
C7_Witness ==
    /\ ret # None /\ call[1].fn = "request"
    /\ Len(Get(call[1].resp, "STATUS")) = 2
    /\ Get(call[1].resp, "STATUS")[1].STATUS = "S"
    /\ Get(call[1].resp, "STATUS")[2].STATUS = "W"
    /\ ~ret[1].ok /\ ret[1].exc.type = "ApiError"

\* the metrics of one context that the two answers call for
ExpectedMetrics(context, s, devs) ==
    LET withGpu == {i \in DOMAIN devs : "GPU" \in DOMAIN devs[i]}
        name(prefix, i) == prefix \o ToString(devs[i]["GPU"])
    IN  IF context = "hashrate"
        THEN {Metric("hashrate", s["MHS 30s"], Some("MH/s"), "hashrate") :
                x \in IF "MHS 30s" \in DOMAIN s THEN {1} ELSE {}}
        ELSE IF context = "uptime"
        THEN {Metric("uptime", s["Elapsed"], Some("s"), "uptime") :
                x \in IF "Elapsed" \in DOMAIN s THEN {1} ELSE {}}
        ELSE IF context = "alive"
        THEN {Metric(name("alive_", i), devs[i]["Status"] = "Alive", None, "alive") :
                i \in {j \in withGpu : "Status" \in DOMAIN devs[j]}}
        ELSE {Metric(name("temperature_", i), devs[i]["Temperature"], Some("C"),
                     "temperature") :
                i \in {j \in withGpu : "Temperature" \in DOMAIN devs[j]}}
             \cup {Metric(name("memory_temperature_", i), devs[i]["TemperatureMem"],
                          Some("C"), "temperature") :
                i \in {j \in withGpu : "TemperatureMem" \in DOMAIN devs[j]}}

MetricsOf(context) == {i \in DOMAIN metrics : metrics[i].context = context}

C8_Metrics ==
    devices # None =>
        /\ \A i \in DOMAIN metrics :
            metrics[i].context \in {"hashrate", "uptime", "alive", "temperature"}
        /\ \A context \in {"hashrate", "uptime", "alive", "temperature"} :
            /\ {metrics[i] : i \in MetricsOf(context)}
                = ExpectedMetrics(context, summary[1], devices[1])
            /\ Cardinality(MetricsOf(context))
                = Cardinality(ExpectedMetrics(context, summary[1], devices[1]))

C8_NoFailure ==
    /\ pc = At("summary", "return") /\ request_return(response).ok
         /\ request_return(response).value # <<>> => pc' = At("devs", "connect")
    /\ pc = At("devs", "return") /\ request_return(response).ok => pc' = "evaluate"

\* C8: after two successful answers the metrics are exactly: hashrate iff the
\* summary has "MHS 30s", uptime iff it has "Elapsed", and for each device with a
\* "GPU" id alive_<id> iff "Status" is present (true iff it is "Alive"),
\* temperature_<id> iff "Temperature" is, memory_temperature_<id> iff
\* "TemperatureMem" is; nothing else, and a missing field never fails the probe.
C8_DataDriven == []C8_Metrics /\ [][C8_NoFailure]_vars

\* two answers with missing fields were probed: a summary without "Elapsed", a
\* device without "GPU" but with a status, a device with a status only
C8_Witness ==
    /\ pc = "evaluate"
    /\ "MHS 30s" \in DOMAIN summary[1] /\ "Elapsed" \notin DOMAIN summary[1]
    /\ Len(devices[1]) = 2
    /\ DOMAIN devices[1][1] = {"Status", "Temperature"}
    /\ DOMAIN devices[1][2] = {"GPU", "Status"}
    /\ devices[1][2]["Status"] = "Dead"
    /\ Len(metrics) = 2

C9_Connections ==
    /\ Len(socks) <= 2
    /\ \A i \in 1..Len(socks) - 1 : socks[i] = "closed"
    /\ sent \in {<<>>, <<"summary">>, <<"summary", "devs">>}
    /\ Len(sent) <= Len(socks)
    /\ pc \in {At("devs", "connect"), "evaluate"} => \A i \in DOMAIN socks : socks[i] = "closed"

C9_Step ==
    /\ Len(socks') >= Len(socks) /\ Len(sent') >= Len(sent)
    /\ Len(socks') > Len(socks) =>
        /\ Len(socks') = Len(socks) + 1
        /\ \A i \in DOMAIN socks : socks[i] = "closed"
        /\ Len(sent) = Len(socks)
        /\ Len(socks) = 1 => summary # None /\ err = None
    /\ err # None => Len(socks') = Len(socks) /\ sent' = sent

\* C9: a run opens at most two connections, one after the other: the summary
\* connection is closed before the devs connection is opened, every request has its
\* own connection, no command is sent twice, and after a failed summary request no
\* devs request is sent.
C9_Sequential == []C9_Connections /\ [][C9_Step]_vars

\* both requests were made and both connections are closed
C9_Witness ==
    /\ pc = "exit" /\ err = None
    /\ socks = <<"closed", "closed">>
    /\ sent = <<"summary", "devs">>

\* C10: every call of request terminates, whatever the peer does; a peer that
\* never closes the connection cannot keep the request reading for ever.
C10_RequestTerminates ==
    \A cmd \in Commands : (pc = At(cmd, "recv")) ~> (pc # At(cmd, "recv"))

====
